---------------------------- MODULE Spec2Model ----------------------------
(***************************************************************************)
(* A model of the request executor of the Unbrowser SDK:                   *)
(* UnbrowserClient.request, the retry loop around fetch().  The repository *)
(* holds two copies of it, the @unbrowser/core client (the text of         *)
(* client.ts, held in src/examples/02-tier-control.mjs from line 96 on)    *)
(* and the older src/src/http-client.ts; the variable impl says which copy *)
(* one behaviour runs.  One behaviour is one logical operation, one call   *)
(* of request(), on a client constructed from a configuration.             *)
(***************************************************************************)
EXTENDS Integers, Sequences, FiniteSets, TLC

\* The largest maxRetries a configuration gives.
MaxRetries == 7

\* The most lines a stream holds.
MaxLines == 4

\* The most lines a CRLF-terminated stream holds.
MaxCrlfLines == 3

\* The most complete lines of a body that may end in an unterminated line.
MaxEdgeLines == 3

\* The largest maxRetries of a client running two operations at once.
MaxConcurrentRetries == 3

\* config.maxRetries || 3
DefaultMaxRetries == 3
\* Math.pow(2, attempt) * 1000
BaseDelayMs == 1000
\* Math.min(..., 30000)
MaxDelayMs == 30000

Impls == {"client", "http-client"}

\* type ErrorCode, errors.ts
ErrorCode ==
    { "MISSING_API_KEY", "INVALID_API_KEY", "EXPIRED_API_KEY", "UNAUTHORIZED",
      "FORBIDDEN",
      "INVALID_REQUEST", "INVALID_URL", "URL_BLOCKED", "TIMEOUT", "REQUEST_ABORTED",
      "RATE_LIMITED", "QUOTA_EXCEEDED",
      "CONTENT_NOT_FOUND", "CONTENT_BLOCKED", "CAPTCHA_DETECTED", "BOT_DETECTED",
      "NETWORK_ERROR", "DNS_ERROR", "SSL_ERROR", "CONNECTION_REFUSED",
      "INTERNAL_ERROR", "SERVICE_UNAVAILABLE", "SSE_ERROR", "HEALTH_CHECK_FAILED",
      "VERIFICATION_FAILED", "CONTENT_MISMATCH",
      "UNKNOWN_ERROR" }

\* error.code of an envelope is a string off the wire: any ErrorCode, or a
\* code the enumeration does not know.
WireCodes == ErrorCode \cup {"I_AM_A_TEAPOT"}

\* An absent field of a parsed JSON object.
Absent == "undefined"

\* envelope.data: two payloads, JSON null, or no data field.
DataValues == {"d1", "d2", "null", Absent}

\* { success, data?, error? }: what response.json() resolves to.
Envelopes ==
    [success : {TRUE}, data : DataValues, error : {Absent}]
      \cup [success : {FALSE}, data : {Absent}, error : WireCodes \cup {Absent}]

NoEnvelope == [success |-> FALSE, data |-> Absent, error |-> "none"]

\* Error values: name is the error's .name, code the UnbrowserError's .code.
NoError == [name |-> "null", code |-> ""]
UnbrowserError(code) == [name |-> "UnbrowserError", code |-> code]
\* no UnbrowserError object constructed yet
NoErrorObject == [code |-> "", recovery |-> << >>]
\* no construction yet
NoErrorArgs == [op |-> "none", code |-> "", customRecovery |-> << >>]
\* config.apiKey: absent, or a string, held as the pieces a test looks at
NoKey == [defined |-> FALSE, text |-> << >>]
KeyOf(text) == [defined |-> TRUE, text |-> text]
\* no operation is running beside the one of request()
NoOps == << >>
\* fetch() of browseWithProgress() has not resolved
NoResponse == [ok |-> FALSE, text |-> "none"]
\* a response with response.ok, its body still to be read
OkResponse == [ok |-> TRUE, text |-> ""]
\* a response without response.ok, text being what response.text() gives
NotOkResponse(text) == [ok |-> FALSE, text |-> text]
\* what fetch() and response.json() reject with when their signal aborts
AbortError == [name |-> "AbortError", code |-> ""]
\* what fetch() rejects with on a network failure
TypeError == [name |-> "TypeError", code |-> ""]
\* what response.json() rejects with on a body that is not JSON
SyntaxError == [name |-> "SyntaxError", code |-> ""]

VARIABLES
    impl,            \* which copy of request() runs
    retry,           \* this.retry
    maxRetries,      \* this.maxRetries
    hasSignal,       \* options?.signal is given
    signalAborted,   \* the caller's signal has aborted
    pc,              \* "idle", "fetch", "json", "sleep", "done"
    attempt,         \* the loop variable
    calls,           \* fetch() calls made so far
    timerArmed,      \* this attempt's setTimeout is pending
    ctrlAborted,     \* this attempt's controller has aborted
    staleTimers,     \* timers of concluded attempts still pending
    result,          \* the envelope parsed in this attempt
    lastError,       \* lastError
    sleepMs,         \* the backoff delay being waited
    delays,          \* the backoff delays waited so far
    outcome,         \* what request() returned or threw
    onlyRateLimited, \* history: every concluded attempt got a RATE_LIMITED envelope
    inFlight,        \* fetch() calls issued and not yet concluded
    \* browseWithProgress()
    stream,          \* the text the response body will deliver, as tokens
    rest,            \* the part of it not yet read
    ssePc,           \* "idle", "reading", "done"
    sseEnd,          \* how the read loop ended: "none", "closed", "parse", "abort", "network"
    sseSplit,        \* history: the body came in more than one chunk
    buffer,          \* buffer
    sink,            \* the payloads onProgress was called with, in order
    sseResult,       \* result
    sseError,        \* error
    sseOutcome,      \* what browseWithProgress() returned or threw
    errorObject,     \* the UnbrowserError object last constructed: its code and recovery
    errorArgs,       \* history: how it was constructed, and with which arguments
    apiKey,          \* this.apiKey
    constructError,  \* what the constructor of the client threw: "none", or a code
    lf,              \* history: the read loop's state, had the body had no "\r"
    ops,             \* the operations running concurrently on one client
    response         \* what fetch() resolved with in browseWithProgress()

vars ==
    << impl, retry, maxRetries, hasSignal, signalAborted, pc, attempt, calls,
       timerArmed, ctrlAborted, staleTimers, result, lastError, sleepMs, delays,
       outcome, onlyRateLimited, inFlight,
       stream, rest, ssePc, sseEnd, sseSplit, buffer, sink, sseResult, sseError,
       sseOutcome, errorObject, errorArgs, apiKey, constructError, lf, ops,
       response >>

\* the state of browseWithProgress()
sseVars ==
    << stream, rest, ssePc, sseEnd, sseSplit, buffer, sink, sseResult, sseError,
       sseOutcome, lf, response >>

\* the state of request()
requestVars ==
    << retry, maxRetries, hasSignal, signalAborted, pc, attempt, calls, timerArmed,
       ctrlAborted, staleTimers, result, lastError, sleepMs, delays, outcome,
       onlyRateLimited, inFlight, apiKey, constructError >>

\* the UnbrowserError object under construction
errorVars == << errorObject, errorArgs >>

\* what the constructor and the caller of request() fixed
config == << impl, apiKey, constructError, retry, maxRetries, hasSignal >>

Pending == [kind |-> "pending", data |-> Absent, error |-> NoError]
Returned(d) == [kind |-> "returned", data |-> d, error |-> NoError]
Thrown(e) == [kind |-> "thrown", data |-> Absent, error |-> e]

Min(a, b) == IF a < b THEN a ELSE b

\* Math.pow(2, n)
RECURSIVE Pow2(_)
Pow2(n) == IF n <= 0 THEN 1 ELSE 2 * Pow2(n - 1)

\* this.maxRetries = config.maxRetries || 3 (0 stands for 0 and for absent)
ConstructMaxRetries(c) == IF c = 0 THEN DefaultMaxRetries ELSE c

\* Mutant: the retry flag is not consulted.
C3_AttemptsIgnoreRetry == maxRetries

\* const attempts = this.retry ? this.maxRetries : 1
Attempts == IF retry THEN maxRetries ELSE 1

\* the codes request() never retries
NonRetryable ==
    IF impl = "client"
      THEN { "UNAUTHORIZED", "FORBIDDEN", "INVALID_REQUEST", "INVALID_URL",
             "MISSING_API_KEY", "INVALID_API_KEY" }
      ELSE { "UNAUTHORIZED", "FORBIDDEN", "INVALID_REQUEST", "INVALID_URL" }

\* Mutant: the delay does not grow with the attempt.
C10_BackoffConstant(a) == BaseDelayMs

\* the delay of setTimeout(resolve, ...) after failed attempt a
BackoffDelay(a) ==
    IF impl = "client"
      THEN Min(Pow2(a) * BaseDelayMs, MaxDelayMs)
      ELSE Pow2(a) * BaseDelayMs

\* signal: options?.signal || controller.signal
SignalAborted == IF hasSignal THEN signalAborted ELSE ctrlAborted

\* the read loop before its first pass
LfIdle == [buffer |-> << >>, sink |-> << >>, result |-> "null", error |-> NoError,
           outcome |-> Pending]

\* browseWithProgress() is not called.
SseIdle ==
    /\ stream = << >>
    /\ rest = << >>
    /\ ssePc = "idle"
    /\ sseEnd = "none"
    /\ sseSplit = FALSE
    /\ buffer = << >>
    /\ sink = << >>
    /\ sseResult = "null"
    /\ sseError = NoError
    /\ sseOutcome = Pending
    /\ lf = LfIdle
    /\ response = NoResponse

Init ==
    /\ impl \in Impls
    /\ apiKey = KeyOf(<< "ub_", "live_", "k" >>)
    /\ constructError = "none"
    /\ retry \in BOOLEAN
    /\ \E c \in (-1) .. MaxRetries : maxRetries = ConstructMaxRetries(c)
    /\ hasSignal \in BOOLEAN
    /\ signalAborted = FALSE
    /\ pc = "idle"
    /\ attempt = 0
    /\ calls = 0
    /\ timerArmed = FALSE
    /\ ctrlAborted = FALSE
    /\ staleTimers = 0
    /\ result = NoEnvelope
    /\ lastError = NoError
    /\ sleepMs = 0
    /\ delays = << >>
    /\ outcome = Pending
    /\ onlyRateLimited = TRUE
    /\ inFlight = 0
    /\ SseIdle
    /\ errorObject = NoErrorObject
    /\ errorArgs = NoErrorArgs
    /\ ops = NoOps


(***************************************************************************)
(* The pieces of request() the actions share.                              *)
(***************************************************************************)

\* Mutant: the test of success is inverted.
C4_FailedInverted(env) == env.success

\* if (!result.success)
Failed(env) == ~env.success

\* const error = result.error || { code: 'UNKNOWN_ERROR', ... }; error.code
EnvelopeCode(env) == IF env.error = Absent THEN "UNKNOWN_ERROR" ELSE env.error

\* Mutant: a field the envelope does not have is returned.
C5_UnwrapWrongField(env) == Absent

\* return result.data as T
Unwrap(env) == env.data

\* throw lastError || new UnbrowserError('UNKNOWN_ERROR', 'Request failed')
ExhaustedError(le) == IF le # NoError THEN le ELSE UnbrowserError("UNKNOWN_ERROR")

\* Mutant: the name tested is not the one an abort rejects with.
C7_IsAbortWrongName(error) == error.name = "AbortedError"

\* error instanceof Error && error.name === 'AbortError'
IsAbort(error) == error.name = "AbortError"

\* Mutant: a second fetch() is issued beside the first.
C11_StartAttemptTwice(a) ==
    /\ attempt' = a
    /\ calls' = calls + 2
    /\ timerArmed' = TRUE
    /\ ctrlAborted' = FALSE
    /\ result' = NoEnvelope
    /\ pc' = "fetch"
    /\ outcome' = outcome
    /\ inFlight' = inFlight + 2

\* One pass of the loop body up to the await of fetch(): a new
\* AbortController, setTimeout(() => controller.abort(), this.timeout), and
\* the call of fetch().
StartAttempt(a) ==
    /\ attempt' = a
    /\ calls' = calls + 1
    /\ timerArmed' = TRUE
    /\ ctrlAborted' = FALSE
    /\ result' = NoEnvelope
    /\ pc' = "fetch"
    /\ outcome' = outcome
    /\ inFlight' = inFlight + 1

\* Mutant: the loop test is attempt < attempts.
C1_LoopHeadOffByOne(a) ==
    IF a < Attempts
      THEN StartAttempt(a)
      ELSE /\ attempt' = a
           /\ pc' = "done"
           /\ outcome' = Thrown(ExhaustedError(lastError))
           /\ UNCHANGED << calls, timerArmed, ctrlAborted, result, inFlight >>

\* for (let attempt = ...; attempt <= attempts; attempt++) entered with
\* attempt = a: the next pass, or the throw after the loop.
LoopHead(a) ==
    IF a <= Attempts
      THEN StartAttempt(a)
      ELSE /\ attempt' = a
           /\ pc' = "done"
           /\ outcome' = Thrown(ExhaustedError(lastError))
           /\ UNCHANGED << calls, timerArmed, ctrlAborted, result, inFlight >>

\* Mutant: lastError is assigned only while it is null.
C31_CatchKeepsFirstError(error) ==
    /\ lastError' = IF lastError = NoError THEN error ELSE lastError
    /\ inFlight' = inFlight - 1
    /\ timerArmed' = FALSE
    /\ staleTimers' = staleTimers + (IF timerArmed THEN 1 ELSE 0)
    /\ IF error.name = "UnbrowserError" /\ error.code \in NonRetryable
         THEN /\ pc' = "done"
              /\ outcome' = Thrown(error)
              /\ UNCHANGED << attempt, sleepMs >>
         ELSE IF IsAbort(error)
           THEN /\ pc' = "done"
                /\ outcome' = Thrown(UnbrowserError("REQUEST_ABORTED"))
                /\ UNCHANGED << attempt, sleepMs >>
           ELSE IF attempt < Attempts
             THEN /\ pc' = "sleep"
                  /\ sleepMs' = BackoffDelay(attempt)
                  /\ UNCHANGED << attempt, outcome >>
             ELSE /\ pc' = "done"
                  /\ attempt' = attempt + 1
                  /\ outcome' = Thrown(ExhaustedError(lastError'))
                  /\ UNCHANGED sleepMs

\* Mutant: the backoff is waited after the last attempt too.
C32_CatchSleepsAfterLast(error) ==
    /\ lastError' = error
    /\ inFlight' = inFlight - 1
    /\ timerArmed' = FALSE
    /\ staleTimers' = staleTimers + (IF timerArmed THEN 1 ELSE 0)
    /\ IF error.name = "UnbrowserError" /\ error.code \in NonRetryable
         THEN /\ pc' = "done"
              /\ outcome' = Thrown(error)
              /\ UNCHANGED << attempt, sleepMs >>
         ELSE IF IsAbort(error)
           THEN /\ pc' = "done"
                /\ outcome' = Thrown(UnbrowserError("REQUEST_ABORTED"))
                /\ UNCHANGED << attempt, sleepMs >>
           ELSE /\ pc' = "sleep"
                /\ sleepMs' = BackoffDelay(attempt)
                /\ UNCHANGED << attempt, outcome >>

\* catch (error) { ... }, and after it the loop's increment and test.  The
\* catch block does not clear the attempt's timer: one still pending stays
\* pending, with a controller no later fetch() listens to.
Catch(error) ==
    /\ lastError' = error
    /\ inFlight' = inFlight - 1
    /\ timerArmed' = FALSE
    /\ staleTimers' = staleTimers + (IF timerArmed THEN 1 ELSE 0)
    /\ IF error.name = "UnbrowserError" /\ error.code \in NonRetryable
         THEN /\ pc' = "done"
              /\ outcome' = Thrown(error)
              /\ UNCHANGED << attempt, sleepMs >>
         ELSE IF IsAbort(error)
           THEN /\ pc' = "done"
                /\ outcome' = Thrown(UnbrowserError("REQUEST_ABORTED"))
                /\ UNCHANGED << attempt, sleepMs >>
           ELSE IF attempt < Attempts
             THEN /\ pc' = "sleep"
                  /\ sleepMs' = BackoffDelay(attempt)
                  /\ UNCHANGED << attempt, outcome >>
             ELSE /\ pc' = "done"
                  /\ attempt' = attempt + 1
                  /\ outcome' = Thrown(ExhaustedError(error))
                  /\ UNCHANGED sleepMs

(***************************************************************************)
(* The actions: the call of request(), and each event its awaits wait for. *)
(***************************************************************************)

\* request() is called: attempts is computed and the loop entered.
Request ==
    /\ pc = "idle"
    /\ LoopHead(1)
    /\ UNCHANGED << config, signalAborted, staleTimers, lastError, sleepMs, delays,
                    onlyRateLimited, sseVars, errorVars, ops >>

\* The caller aborts the signal it passed in options.
CallerAbort ==
    /\ hasSignal
    /\ ~signalAborted
    /\ pc # "done"
    /\ signalAborted' = TRUE
    /\ UNCHANGED << config, pc, attempt, calls, timerArmed, ctrlAborted, staleTimers,
                    result, lastError, sleepMs, delays, outcome, onlyRateLimited,
                    inFlight, sseVars, errorVars, ops >>

\* The attempt's timer fires while fetch() is pending: controller.abort().
TimeoutFires ==
    /\ pc = "fetch"
    /\ timerArmed
    /\ timerArmed' = FALSE
    /\ ctrlAborted' = TRUE
    /\ UNCHANGED << config, signalAborted, pc, attempt, calls, staleTimers, result,
                    lastError, sleepMs, delays, outcome, onlyRateLimited,
                    inFlight, sseVars, errorVars, ops >>

\* Mutant: the timers of all attempts abort one controller.
C35_StaleTimerAbortsCall ==
    /\ staleTimers > 0
    /\ staleTimers' = staleTimers - 1
    /\ ctrlAborted' = TRUE
    /\ UNCHANGED << config, signalAborted, pc, attempt, calls, timerArmed,
                    result, lastError, sleepMs, delays, outcome, onlyRateLimited,
                    inFlight, sseVars, errorVars, ops >>

\* The timer of an earlier attempt fires: it aborts that attempt's controller.
StaleTimerFires ==
    /\ staleTimers > 0
    /\ staleTimers' = staleTimers - 1
    /\ UNCHANGED << config, signalAborted, pc, attempt, calls, timerArmed, ctrlAborted,
                    result, lastError, sleepMs, delays, outcome, onlyRateLimited,
                    inFlight, sseVars, errorVars, ops >>

\* fetch() or response.json() rejects because the signal it was given aborted.
AwaitAborted ==
    /\ pc \in {"fetch", "json"}
    /\ SignalAborted
    /\ Catch(AbortError)
    /\ onlyRateLimited' = FALSE
    /\ UNCHANGED << config, signalAborted, calls, ctrlAborted, result, delays, sseVars, errorVars, ops >>

\* fetch() resolves with a response: clearTimeout(timeoutId).
FetchResolves ==
    /\ pc = "fetch"
    /\ ~SignalAborted
    /\ timerArmed' = FALSE
    /\ pc' = "json"
    /\ UNCHANGED << config, signalAborted, attempt, calls, ctrlAborted, staleTimers,
                    result, lastError, sleepMs, delays, outcome, onlyRateLimited,
                    inFlight, sseVars, errorVars, ops >>

\* fetch() rejects: the network failed.
FetchRejects ==
    /\ pc = "fetch"
    /\ ~SignalAborted
    /\ Catch(TypeError)
    /\ onlyRateLimited' = FALSE
    /\ UNCHANGED << config, signalAborted, calls, ctrlAborted, result, delays, sseVars, errorVars, ops >>

\* response.json() resolves with the envelope env.
JsonParsed(env) ==
    /\ pc = "json"
    /\ ~SignalAborted
    /\ result' = env
    /\ IF Failed(env)
         THEN /\ Catch(UnbrowserError(EnvelopeCode(env)))
              /\ onlyRateLimited' = (onlyRateLimited /\ env.error = "RATE_LIMITED")
         ELSE /\ pc' = "done"
              /\ outcome' = Returned(Unwrap(env))
              /\ onlyRateLimited' = FALSE
              /\ inFlight' = inFlight - 1
              /\ UNCHANGED << attempt, timerArmed, staleTimers, lastError, sleepMs >>
    /\ UNCHANGED << config, signalAborted, calls, ctrlAborted, delays >>
    /\ UNCHANGED << sseVars, errorVars, ops >>

\* response.json() rejects: the body is not JSON.
JsonRejects ==
    /\ pc = "json"
    /\ ~SignalAborted
    /\ Catch(SyntaxError)
    /\ onlyRateLimited' = FALSE
    /\ UNCHANGED << config, signalAborted, calls, ctrlAborted, result, delays, sseVars, errorVars, ops >>

\* Mutant: the delay waited is not recorded.
C30_SleepDoneForgetsDelay ==
    /\ pc = "sleep"
    /\ delays' = delays
    /\ LoopHead(attempt + 1)
    /\ UNCHANGED << config, signalAborted, staleTimers, lastError, sleepMs,
                    onlyRateLimited, sseVars, errorVars, ops >>

\* Mutant: the backoff promise never resolves.
C33_SleepNeverEnds ==
    /\ pc = "sleep"
    /\ UNCHANGED vars

\* The backoff setTimeout resolves; attempt++ and the loop test follow.
SleepDone ==
    /\ pc = "sleep"
    /\ delays' = Append(delays, sleepMs)
    /\ LoopHead(attempt + 1)
    /\ UNCHANGED << config, signalAborted, staleTimers, lastError, sleepMs,
                    onlyRateLimited, sseVars, errorVars, ops >>

Next ==
    \/ Request
    \/ CallerAbort
    \/ TimeoutFires
    \/ StaleTimerFires
    \/ AwaitAborted
    \/ FetchResolves
    \/ FetchRejects
    \/ \E env \in Envelopes : JsonParsed(env)
    \/ JsonRejects
    \/ SleepDone

Spec == Init /\ [][Next]_vars

TypeOK ==
    /\ impl \in Impls
    /\ retry \in BOOLEAN
    /\ maxRetries \in (-1) .. (MaxRetries + 1)
    /\ pc \in {"idle", "fetch", "json", "sleep", "done"}
    /\ attempt \in 0 .. (MaxRetries + 2)
    /\ calls \in 0 .. (MaxRetries + 1)
    /\ staleTimers \in 0 .. (MaxRetries + 1)
    /\ result \in Envelopes \cup {NoEnvelope}
    /\ outcome.kind \in {"pending", "returned", "thrown"}

(***************************************************************************)
(* The claims about the request executor.                                  *)
(***************************************************************************)

\* C1: with retry on and maxRetries = n >= 1, an operation all of whose
\* physical calls returned a { success: false, error: { code: "RATE_LIMITED" } }
\* envelope ends after exactly n calls, throwing an UnbrowserError RATE_LIMITED.
C1_RateLimitedExhaustsAttempts ==
    (pc = "done" /\ retry /\ maxRetries >= 1 /\ onlyRateLimited)
      => /\ calls = maxRetries
         /\ outcome = Thrown(UnbrowserError("RATE_LIMITED"))

C1_Witness ==
    /\ pc = "done"
    /\ retry
    /\ maxRetries >= 3
    /\ onlyRateLimited
    /\ calls = maxRetries

\* the non-retryable set as the specification gives it
SpecNonRetryable ==
    { "UNAUTHORIZED", "FORBIDDEN", "INVALID_REQUEST", "INVALID_URL",
      "MISSING_API_KEY", "INVALID_API_KEY" }

\* C2: an attempt that failed with an error whose kind is in the non-retryable
\* set ended the operation at once: that error is thrown, no call and no
\* backoff delay follow it, at every attempt and for every maxRetries.
C2_NonRetryableRaisesImmediately ==
    (lastError.name = "UnbrowserError" /\ lastError.code \in SpecNonRetryable)
      => /\ pc = "done"
         /\ outcome = Thrown(lastError)
         /\ Len(delays) = calls - 1

\* C3: with retry = false, exactly one physical call is made, whatever its
\* outcome and whatever maxRetries is.
C3_NoRetryOneCall ==
    ~retry => /\ calls <= 1
              /\ pc # "idle" => calls = 1

C3_Witness ==
    /\ ~retry
    /\ maxRetries > 1
    /\ pc = "done"
    /\ outcome = Thrown(TypeError)

\* C4: the step in which an attempt's envelope has success = true returns:
\* it ends the operation with a result, with no further call and no backoff
\* delay, and nothing is called or waited once the operation has returned.
C4_SuccessReturnsImmediately ==
    [][ /\ (pc = "json" /\ result'.success)
          => /\ pc' = "done"
             /\ outcome'.kind = "returned"
             /\ calls' = calls
             /\ delays' = delays
             /\ sleepMs' = sleepMs
        /\ outcome.kind = "returned" => UNCHANGED << pc, calls, delays, outcome >>
      ]_vars

C4_Witness ==
    /\ outcome.kind = "returned"
    /\ retry
    /\ attempt >= 2
    /\ attempt < maxRetries

\* C5: the result of an operation that returned on an envelope with
\* non-null data is that data.
C5_DataUnchanged ==
    (outcome.kind = "returned" /\ result.success /\ result.data \notin {Absent, "null"})
      => outcome.data = result.data

C5_Witness ==
    /\ outcome.kind = "returned"
    /\ result.data = "d2"
    /\ outcome.data = "d2"

\* C6: an operation ended by the internal timeout's abort of the call in
\* flight, the caller not having cancelled, throws kind TIMEOUT.
C6_TimeoutSurfacesAsTimeout ==
    (pc = "done" /\ outcome.kind = "thrown" /\ ~signalAborted /\ ctrlAborted
       /\ lastError = AbortError)
      => outcome.error = UnbrowserError("TIMEOUT")

C8_RaisesOperationError ==
    outcome.kind = "thrown" => outcome.error.name = "UnbrowserError"

\* min(1000 * 2^k, 30000)
SpecDelay(k) == Min(BaseDelayMs * Pow2(k), MaxDelayMs)

\* C9: the delay waited after failed attempt k, the failure being neither
\* non-retryable nor a cancellation, is min(1000 * 2^k, 30000) ms.
C9_BackoffDelayIsCapped ==
    /\ pc = "sleep" => sleepMs = SpecDelay(attempt)
    /\ \A k \in 1 .. Len(delays) : delays[k] = SpecDelay(k)

\* C10, as stated: the delays waited in one operation are strictly increasing.
C10_DelaysStrictlyIncreasing ==
    \A i \in 1 .. (Len(delays) - 1) : delays[i] < delays[i + 1]

\* C10, amended: each delay waited is greater than the one before it, or
\* both are the cap of 30000 ms; so the delays are strictly increasing in
\* every operation of at most 6 attempts.
C10_DelaysIncreaseUpToCap ==
    /\ \A i \in 1 .. (Len(delays) - 1) :
          \/ delays[i] < delays[i + 1]
          \/ delays[i] = MaxDelayMs /\ delays[i + 1] = MaxDelayMs
    /\ Attempts <= 6 => C10_DelaysStrictlyIncreasing

C10_Witness ==
    /\ impl = "client"
    /\ Len(delays) >= 6
    /\ delays[5] = MaxDelayMs
    /\ delays[6] = MaxDelayMs

\* C11: at most one physical call is in flight; a call is issued only when
\* none is in flight, as the one call of the next attempt, and after a failed
\* attempt only once that attempt's backoff delay has been waited.
C11_AttemptsAreSequential ==
    [][ /\ inFlight <= 1
        /\ inFlight' <= 1
        /\ (pc' \in {"fetch", "json"}) <=> (inFlight' = 1)
        /\ calls' # calls
             => /\ calls' = calls + 1
                /\ attempt' = calls'
                /\ inFlight = 0
                /\ pc \in {"idle", "sleep"}
                /\ pc = "sleep" => delays' = Append(delays, BackoffDelay(attempt))
                /\ Len(delays') = calls
      ]_vars

C11_Witness ==
    /\ pc = "fetch"
    /\ attempt = 3
    /\ calls = 3
    /\ inFlight = 1
    /\ Len(delays) = 2

\* C12: an envelope with success: true and no data ends the operation with
\* an UnbrowserError UNKNOWN_ERROR, never with a returned undefined.
C12_MissingDataIsProtocolError ==
    (pc = "done" /\ result.success /\ result.data = Absent)
      => outcome = Thrown(UnbrowserError("UNKNOWN_ERROR"))

(***************************************************************************)
(* browseWithProgress: the read loop that decodes the server-sent events   *)
(* of one response body.  Text is a sequence of tokens: "\n", a line's     *)
(* prefix ("event: ", "data: "), and the word or JSON text after it; a     *)
(* chunk is any run of tokens, so a chunk may end inside a line.  The two  *)
(* copies of the loop differ only in the code an error record without one  *)
(* is given.                                                               *)
(***************************************************************************)

\* the event types the loop dispatches on
EventTypes == {"progress", "result", "error"}

\* JSON texts of a data line: an object with data and no error, one with
\* error.code and no data, and a text that is not JSON.
Payloads == {"{data:r1}", "{error:{code:RATE_LIMITED}}", "{oops"}

\* The lines of a stream: event lines, data lines and the blank line.
LineKinds ==
    { << "event: ", t >> : t \in EventTypes }
      \cup { << "data: ", p >> : p \in Payloads }
      \cup { << >> }

\* the text of lines, each ended by its line terminator
RECURSIVE Text(_)
Text(ls) == IF ls = << >> THEN << >> ELSE Head(ls) \o << "\n" >> \o Text(Tail(ls))

\* The bodies a server may send: up to MaxLines lines.
Streams == { Text(ls) : ls \in UNION { [1 .. k -> LineKinds] : k \in 0 .. MaxLines } }

\* buffer.split('\n'): the lines of text, the last one being what follows
\* the last line terminator.
RECURSIVE SplitFrom(_, _, _)
SplitFrom(text, i, acc) ==
    IF i > Len(text)
      THEN acc
      ELSE IF text[i] = "\n"
        THEN SplitFrom(text, i + 1, Append(acc, << >>))
        ELSE SplitFrom(text, i + 1, [acc EXCEPT ![Len(acc)] = Append(@, text[i])])

Split(text) == SplitFrom(text, 1, << << >> >>)

\* Mutant: nothing is popped, the text after the last "\n" is a line too.
C38_PoppedKeepsLast(lines) == lines

\* lines.pop(): the array without its last element
Popped(lines) == SubSeq(lines, 1, Len(lines) - 1)

\* line.startsWith(prefix)
StartsWith(line, prefix) == Len(line) > 0 /\ line[1] = prefix

\* Mutant: the "\r" a line ends with stays part of the text after the prefix.
C28_AfterPrefixKeepsCR(line) ==
    IF Len(line) >= 3 THEN "\r" ELSE IF Len(line) >= 2 THEN line[2] ELSE ""

\* line.slice(7).trim(), and lines[dataLineIndex].slice(6) as JSON.parse
\* reads it: the text after the prefix, without the white space after it
\* (the "\r" that split('\n') leaves at the end of a CRLF-terminated line),
\* which trim() removes and JSON.parse passes over
AfterPrefix(line) == IF Len(line) >= 2 THEN line[2] ELSE ""

\* lines.indexOf(line): the first place, from 1, where lines holds a line of
\* this text
IndexOf(lines, line) == CHOOSE i \in 1 .. Len(lines) :
                            /\ lines[i] = line
                            /\ \A j \in 1 .. (i - 1) : lines[j] # line

\* JSON.parse throws on this text
NotJson(text) ==
    text \notin {"{data:r1}", "{error:{code:RATE_LIMITED}}", "{data:null}", "{}"}

\* JSON.parse(text), for the fields the loop reads: data.data and
\* data.error?.code
JsonParse(text) ==
    [ text |-> text,
      data |-> IF text = "{data:r1}" THEN "r1"
               ELSE IF text = "{data:null}" THEN "null" ELSE Absent,
      errorCode |-> IF text = "{error:{code:RATE_LIMITED}}" THEN "RATE_LIMITED" ELSE Absent ]

\* data.error?.code || 'SSE_ERROR' ('BROWSE_ERROR' in http-client.ts)
SseErrorCode(data) ==
    IF data.errorCode # Absent
      THEN data.errorCode
      ELSE IF impl = "client" THEN "SSE_ERROR" ELSE "BROWSE_ERROR"

\* The locals the loop updates: onProgress's calls, result, error, and
\* whether JSON.parse threw.
DecoderState(k, r, e, t) == [sink |-> k, result |-> r, error |-> e, threw |-> t]

\* the if / else if chain on eventType
Dispatch(eventType, data, st) ==
    IF eventType = "progress"
      THEN [st EXCEPT !.sink = Append(@, data)]
      ELSE IF eventType = "result"
        THEN [st EXCEPT !.result = data.data]
        ELSE IF eventType = "error"
          THEN [st EXCEPT !.error = UnbrowserError(SseErrorCode(data))]
          ELSE st

\* Mutant: the data line is looked for one line further on.
C34_DataLineIndexSkipsOne(lines, i) == IndexOf(lines, lines[i]) + 2

\* the index, from 1, of the line taken as the data line of `line`
DataLineIndex(lines, i) == IndexOf(lines, lines[i]) + 1

\* the body of for (const line of lines), for the line at place i
ProcessLine(lines, i, st) ==
    IF ~StartsWith(lines[i], "event: ")
      THEN st
      ELSE LET eventType == AfterPrefix(lines[i])
               dataLineIndex == DataLineIndex(lines, i)
           IN  IF dataLineIndex <= Len(lines) /\ StartsWith(lines[dataLineIndex], "data: ")
                 THEN IF NotJson(AfterPrefix(lines[dataLineIndex]))
                        THEN [st EXCEPT !.threw = TRUE]
                        ELSE Dispatch(eventType, JsonParse(AfterPrefix(lines[dataLineIndex])), st)
                 ELSE st

\* for (const line of lines) { ... } from place i on, left when JSON.parse throws
RECURSIVE ProcessLines(_, _, _)
ProcessLines(lines, i, st) ==
    IF i > Len(lines) \/ st.threw
      THEN st
      ELSE ProcessLines(lines, i + 1, ProcessLine(lines, i, st))

\* browseWithProgress's last lines without the test of result
C14_FinishWithoutResultCheck(r, e) ==
    IF e # NoError THEN Thrown(e) ELSE Returned(r)

\* browseWithProgress's last lines with the result looked at before the error
C15_FinishResultFirst(r, e) ==
    IF r \notin {"null", Absent}
      THEN Returned(r)
      ELSE IF e # NoError THEN Thrown(e) ELSE Thrown(UnbrowserError("SSE_ERROR"))

\* Mutant: only an undefined result counts as no result.
C39_FinishReturnsNull(r, e) ==
    IF e # NoError
      THEN Thrown(e)
      ELSE IF r = Absent
        THEN Thrown(UnbrowserError("SSE_ERROR"))
        ELSE Returned(r)

\* if (error) throw error; if (!result) throw ...; return result
Finish(r, e) ==
    IF e # NoError
      THEN Thrown(e)
      ELSE IF r \in {"null", Absent}
        THEN Thrown(UnbrowserError("SSE_ERROR"))
        ELSE Returned(r)

\* the body holds a "\r"
HasCR(text) == \E i \in 1 .. Len(text) : text[i] = "\r"

\* text with every "\r" taken out: the same lines, LF-terminated
NotCR(t) == t # "\r"
WithoutCR(text) == SelectSeq(text, NotCR)

\* History: one pass of the while loop over the chunk without its "\r",
\* from the state lf, which such passes have led to.
LfPass(chunk) ==
    IF lf.outcome # Pending
      THEN lf
      ELSE LET lines == Split(lf.buffer \o WithoutCR(chunk))
               st == ProcessLines(Popped(lines), 1,
                                  DecoderState(lf.sink, lf.result, lf.error, FALSE))
           IN  [ buffer |-> lines[Len(lines)],
                 sink |-> st.sink,
                 result |-> st.result,
                 error |-> st.error,
                 outcome |-> IF st.threw THEN Thrown(SyntaxError) ELSE Pending ]

\* History: the loop over the body without "\r" ends with outcome o.
LfEnd(o) == IF lf.outcome # Pending THEN lf ELSE [lf EXCEPT !.outcome = o]

\* A client and a response body for browseWithProgress().
InitSSE ==
    /\ impl \in Impls
    /\ apiKey = KeyOf(<< "ub_", "live_", "k" >>)
    /\ constructError = "none"
    /\ retry = TRUE
    /\ maxRetries = DefaultMaxRetries
    /\ hasSignal = FALSE
    /\ signalAborted = FALSE
    /\ pc = "idle"
    /\ attempt = 0
    /\ calls = 0
    /\ timerArmed = FALSE
    /\ ctrlAborted = FALSE
    /\ staleTimers = 0
    /\ result = NoEnvelope
    /\ lastError = NoError
    /\ sleepMs = 0
    /\ delays = << >>
    /\ outcome = Pending
    /\ onlyRateLimited = TRUE
    /\ inFlight = 0
    /\ stream \in Streams
    /\ rest = stream
    /\ ssePc = "idle"
    /\ sseEnd = "none"
    /\ sseSplit = FALSE
    /\ buffer = << >>
    /\ sink = << >>
    /\ sseResult = "null"
    /\ sseError = NoError
    /\ sseOutcome = Pending
    /\ lf = LfIdle
    /\ response = NoResponse
    /\ errorObject = NoErrorObject
    /\ errorArgs = NoErrorArgs
    /\ ops = NoOps

\* browseWithProgress() is called, fetch() resolves with an OK response and
\* its body gives a reader: buffer = '', result = null, error = null.
BrowseWithProgress ==
    /\ ssePc = "idle"
    /\ ssePc' = "reading"
    /\ buffer' = << >>
    /\ sseResult' = "null"
    /\ sseError' = NoError
    /\ response' = OkResponse
    /\ UNCHANGED << impl, requestVars, errorVars, ops, stream, rest, sseEnd, sseSplit, sink,
                    sseOutcome, lf >>

\* reader.read() resolves with a chunk, the next n tokens of the body: one
\* pass of the while loop.
ReadChunk(n) ==
    /\ ssePc = "reading"
    /\ n \in 1 .. Len(rest)
    /\ \E lines \in {Split(buffer \o SubSeq(rest, 1, n))} :
         \E st \in {ProcessLines(Popped(lines), 1,
                                 DecoderState(sink, sseResult, sseError, FALSE))} :
           /\ rest' = SubSeq(rest, n + 1, Len(rest))
           /\ buffer' = lines[Len(lines)]
           /\ sink' = st.sink
           /\ sseResult' = st.result
           /\ sseError' = st.error
           /\ sseSplit' = (rest # stream)
           /\ IF st.threw
                THEN /\ ssePc' = "done"
                     /\ sseEnd' = "parse"
                     /\ sseOutcome' = Thrown(SyntaxError)
                ELSE UNCHANGED << ssePc, sseEnd, sseOutcome >>
    /\ lf' = IF HasCR(stream) THEN LfPass(SubSeq(rest, 1, n)) ELSE lf
    /\ UNCHANGED << impl, requestVars, errorVars, ops, stream, response >>

\* reader.read() resolves with done: the loop is left and the outcome decided.
ReadDone ==
    /\ ssePc = "reading"
    /\ rest = << >>
    /\ ssePc' = "done"
    /\ sseEnd' = "closed"
    /\ sseOutcome' = Finish(sseResult, sseError)
    /\ lf' = IF HasCR(stream) THEN LfEnd(Finish(lf.result, lf.error)) ELSE lf
    /\ UNCHANGED << impl, requestVars, errorVars, ops, stream, rest, sseSplit, buffer, sink,
                    sseResult, sseError, response >>

\* reader.read() rejects: the body was cancelled (an AbortError) or the
\* connection failed (a TypeError).  Nothing catches it.
ReadRejects(e) ==
    /\ ssePc = "reading"
    /\ ssePc' = "done"
    /\ sseEnd' = IF e = AbortError THEN "abort" ELSE "network"
    /\ sseOutcome' = Thrown(e)
    /\ lf' = IF HasCR(stream) THEN LfEnd(Thrown(e)) ELSE lf
    /\ UNCHANGED << impl, requestVars, errorVars, ops, stream, rest, sseSplit, buffer, sink,
                    sseResult, sseError, response >>

NextSSE ==
    \/ BrowseWithProgress
    \/ \E n \in 1 .. (3 * MaxLines) : ReadChunk(n)
    \/ ReadDone
    \/ \E e \in {AbortError, TypeError} : ReadRejects(e)

SpecSSE == InitSSE /\ [][NextSSE]_vars

\* The variables of the read loop stay within their types.
TypeOKSSE ==
    /\ ssePc \in {"idle", "reading", "done"}
    /\ sseEnd \in {"none", "closed", "parse", "abort", "network"}
    /\ sseSplit \in BOOLEAN
    /\ Len(rest) <= Len(stream)
    /\ Len(sink) <= MaxLines

(***************************************************************************)
(* Claims about the event-stream decoder                                   *)
(***************************************************************************)

\* the complete lines of a body
Lines(text) == Popped(Split(text))

\* line i is an event line and the line right after it is a data line
IsRecord(lines, i) ==
    /\ i < Len(lines)
    /\ StartsWith(lines[i], "event: ")
    /\ StartsWith(lines[i + 1], "data: ")

\* Positional decoding: every event line is paired with the line that
\* immediately follows it; records whose payload is not JSON are passed over.
RECURSIVE PositionalLines(_, _, _)
PositionalLines(lines, i, st) ==
    IF i > Len(lines)
      THEN st
      ELSE PositionalLines(lines, i + 1,
             IF IsRecord(lines, i) /\ ~NotJson(AfterPrefix(lines[i + 1]))
               THEN Dispatch(AfterPrefix(lines[i]), JsonParse(AfterPrefix(lines[i + 1])), st)
               ELSE st)

Positional(text) == PositionalLines(Lines(text), 1, DecoderState(<< >>, "null", NoError, FALSE))

\* some record of the body carries a payload that is not JSON
HasMalformedRecord(text) ==
    \E i \in 1 .. Len(Lines(text)) :
        IsRecord(Lines(text), i) /\ NotJson(AfterPrefix(Lines(text)[i + 1]))

\* some record of the body is a result or an error record
HasTerminalRecord(text) ==
    \E i \in 1 .. Len(Lines(text)) :
        IsRecord(Lines(text), i) /\ AfterPrefix(Lines(text)[i]) \in {"result", "error"}

\* what the loop delivers and resolves to when the whole body arrives as one chunk
OneChunk(text) ==
    LET st == ProcessLines(Lines(text), 1, DecoderState(<< >>, "null", NoError, FALSE))
    IN  << st.sink,
           IF st.threw THEN Thrown(SyntaxError) ELSE Finish(st.result, st.error) >>

\* the stream was read to its end or to the record that failed to parse
Decoded == ssePc = "done" /\ sseEnd \in {"closed", "parse"}

\* C13: decoding does not depend on the chunk boundaries: however the body
\* was cut into chunks, the progress payloads delivered to the sink and the
\* terminal outcome are those of the body delivered as one chunk.
C13_ChunkBoundaryIndependent ==
    Decoded => << sink, sseOutcome >> = OneChunk(stream)

\* C14: a stream that closes with no result or error record in it, whatever
\* progress records it delivered, resolves to SSE_ERROR and never to a result.
C14_NoTerminalRecordIsSseError ==
    (ssePc = "done" /\ sseEnd = "closed" /\ ~HasTerminalRecord(stream))
      => sseOutcome = Thrown(UnbrowserError("SSE_ERROR"))

C14_Witness ==
    /\ ssePc = "done"
    /\ sseEnd = "closed"
    /\ ~HasTerminalRecord(stream)
    /\ Len(sink) = 2
    /\ sseOutcome = Thrown(UnbrowserError("SSE_ERROR"))

\* C15: once the stream has closed the operation has exactly one outcome:
\* the recorded error if an error record was decoded (whether or not a result
\* record was decoded too), otherwise the recorded result, otherwise SSE_ERROR.
C15_ExactlyOneTerminalOutcome ==
    (ssePc = "done" /\ sseEnd = "closed")
      => /\ sseOutcome # Pending
         /\ sseOutcome.kind \in {"returned", "thrown"}
         /\ sseError # NoError => sseOutcome = Thrown(sseError)
         /\ (sseError = NoError /\ sseResult = "r1") => sseOutcome = Returned("r1")
         /\ (sseError = NoError /\ sseResult # "r1")
              => sseOutcome = Thrown(UnbrowserError("SSE_ERROR"))

\* an error record followed by a result record, both decoded
C15_Witness ==
    /\ ssePc = "done"
    /\ sseEnd = "closed"
    /\ stream = Text(<< << "event: ", "error" >>, << "data: ", "{error:{code:RATE_LIMITED}}" >>,
                        << "event: ", "result" >>, << "data: ", "{data:r1}" >> >>)
    /\ sseResult = "r1"
    /\ sseError = UnbrowserError("RATE_LIMITED")
    /\ sseOutcome = Thrown(UnbrowserError("RATE_LIMITED"))

\* C16: a record whose data line is not JSON makes the operation resolve to
\* an error of kind SSE_ERROR.
C16_MalformedJsonIsSseError ==
    (Decoded /\ HasMalformedRecord(stream))
      => sseOutcome = Thrown(UnbrowserError("SSE_ERROR"))

\* C17: a stream cancelled before a terminal record was decoded resolves to
\* an error of kind REQUEST_ABORTED.
C17_CancelledStreamIsRequestAborted ==
    (ssePc = "done" /\ sseEnd = "abort" /\ sseResult = "null" /\ sseError = NoError)
      => sseOutcome = Thrown(UnbrowserError("REQUEST_ABORTED"))

\* C18: pairing is positional: in a body processed as one batch, with every
\* payload well formed, each event line dispatches the payload of the line
\* right after it, so the sink, the result and the error are those of
\* positional decoding.
C18_PairingIsPositional ==
    (ssePc = "done" /\ sseEnd = "closed" /\ ~sseSplit /\ ~HasMalformedRecord(stream))
      => /\ sink = Positional(stream).sink
         /\ sseResult = Positional(stream).result
         /\ sseError = Positional(stream).error

\* C19: the sink is called once for each well-formed progress record of the
\* stream, with its payload, in the order of the records.
C19_SinkOncePerProgressRecord ==
    (ssePc = "done" /\ sseEnd = "closed" /\ ~HasMalformedRecord(stream))
      => sink = Positional(stream).sink

(***************************************************************************)
(* errors.ts: the recovery table and the construction of UnbrowserError    *)
(* objects.  An object is a function from its own field names, so that a   *)
(* field a literal leaves out is not in its DOMAIN.  The table is written  *)
(* entry by entry in the order and under the headings of the source.       *)
(***************************************************************************)

\* // Authentication
AuthenticationRecovery ==
    <<
       [ code |-> "MISSING_API_KEY",
         recovery |-> [ canRetry |-> FALSE,
                        suggestion |-> "Provide an API key in the config. Get one at https://unbrowser.ai/dashboard",
                        alternatives |-> << "Check environment variable UNBROWSER_API_KEY" >> ] ],
       [ code |-> "INVALID_API_KEY",
         recovery |-> [ canRetry |-> FALSE,
                        suggestion |-> "API key must start with \"ub_live_\" (production) or \"ub_test_\" (testing)",
                        alternatives |-> << "Generate a new API key at https://unbrowser.ai/dashboard" >> ] ],
       [ code |-> "EXPIRED_API_KEY",
         recovery |-> [ canRetry |-> FALSE,
                        suggestion |-> "Generate a new API key at https://unbrowser.ai/dashboard" ] ],
       [ code |-> "UNAUTHORIZED",
         recovery |-> [ canRetry |-> FALSE,
                        suggestion |-> "Check that your API key is valid and has not been revoked" ] ],
       [ code |-> "FORBIDDEN",
         recovery |-> [ canRetry |-> FALSE,
                        suggestion |-> "Your plan may not have access to this feature. Check your plan limits.",
                        alternatives |-> << "Upgrade plan at https://unbrowser.ai/pricing" >> ] ]
    >>

\* // Request errors
RequestRecovery ==
    <<
       [ code |-> "INVALID_REQUEST",
         recovery |-> [ canRetry |-> FALSE,
                        suggestion |-> "Check the request parameters against the API documentation" ] ],
       [ code |-> "INVALID_URL",
         recovery |-> [ canRetry |-> FALSE,
                        suggestion |-> "Ensure the URL is valid and includes the protocol (https://)",
                        alternatives |-> << "Validate URL format before making request" >> ] ],
       [ code |-> "URL_BLOCKED",
         recovery |-> [ canRetry |-> FALSE,
                        suggestion |-> "This URL is blocked for safety reasons. Use a different URL." ] ],
       [ code |-> "TIMEOUT",
         recovery |-> [ canRetry |-> TRUE,
                        retryAfter |-> 5000,
                        suggestion |-> "Request timed out. Try again with a longer timeout or simpler page.",
                        alternatives |-> << "Increase timeout option", "Use maxLatencyMs to skip slow tiers" >> ] ],
       [ code |-> "REQUEST_ABORTED",
         recovery |-> [ canRetry |-> TRUE,
                        suggestion |-> "Request was cancelled. Retry if needed." ] ]
    >>

\* // Rate limiting
RateLimitingRecovery ==
    <<
       [ code |-> "RATE_LIMITED",
         recovery |-> [ canRetry |-> TRUE,
                        retryAfter |-> 60000,
                        suggestion |-> "Too many requests. Wait before retrying.",
                        alternatives |-> << "Use batch() for multiple URLs", "Implement request queuing" >> ] ],
       [ code |-> "QUOTA_EXCEEDED",
         recovery |-> [ canRetry |-> FALSE,
                        suggestion |-> "Monthly quota exceeded. Upgrade plan or wait for quota reset.",
                        alternatives |-> << "Check usage at https://unbrowser.ai/dashboard", "Upgrade plan" >> ] ]
    >>

\* // Content errors
ContentRecovery ==
    <<
       [ code |-> "CONTENT_NOT_FOUND",
         recovery |-> [ canRetry |-> FALSE,
                        suggestion |-> "The page returned a 404 error. Check if the URL is correct.",
                        alternatives |-> << "Try the domain homepage", "Search for the content elsewhere" >> ] ],
       [ code |-> "CONTENT_BLOCKED",
         recovery |-> [ canRetry |-> TRUE,
                        retryAfter |-> 30000,
                        suggestion |-> "Content was blocked by the target site. Try with different options.",
                        alternatives |-> << "Enable stealth mode", "Use a session", "Try a different time" >> ] ],
       [ code |-> "CAPTCHA_DETECTED",
         recovery |-> [ canRetry |-> TRUE,
                        retryAfter |-> 60000,
                        suggestion |-> "CAPTCHA detected. The site may be rate-limiting requests.",
                        alternatives |-> << "Use a session", "Reduce request frequency", "Enable stealth mode" >> ] ],
       [ code |-> "BOT_DETECTED",
         recovery |-> [ canRetry |-> TRUE,
                        retryAfter |-> 60000,
                        suggestion |-> "Bot detection triggered. Try enabling stealth mode.",
                        alternatives |-> << "Use debug.visible to troubleshoot", "Try with slower request rate" >> ] ]
    >>

\* // Network errors
NetworkRecovery ==
    <<
       [ code |-> "NETWORK_ERROR",
         recovery |-> [ canRetry |-> TRUE,
                        retryAfter |-> 5000,
                        suggestion |-> "Network connection failed. Check internet connectivity." ] ],
       [ code |-> "DNS_ERROR",
         recovery |-> [ canRetry |-> TRUE,
                        retryAfter |-> 5000,
                        suggestion |-> "DNS lookup failed. The domain may not exist or DNS may be down.",
                        alternatives |-> << "Verify domain name spelling", "Try using IP address if known" >> ] ],
       [ code |-> "SSL_ERROR",
         recovery |-> [ canRetry |-> FALSE,
                        suggestion |-> "SSL certificate error. The site may have an invalid certificate." ] ],
       [ code |-> "CONNECTION_REFUSED",
         recovery |-> [ canRetry |-> TRUE,
                        retryAfter |-> 30000,
                        suggestion |-> "Connection refused. The server may be down or blocking requests." ] ]
    >>

\* // Server errors
ServerRecovery ==
    <<
       [ code |-> "INTERNAL_ERROR",
         recovery |-> [ canRetry |-> TRUE,
                        retryAfter |-> 10000,
                        suggestion |-> "Internal server error. This is a temporary issue, please retry." ] ],
       [ code |-> "SERVICE_UNAVAILABLE",
         recovery |-> [ canRetry |-> TRUE,
                        retryAfter |-> 30000,
                        suggestion |-> "Service temporarily unavailable. Please retry later.",
                        alternatives |-> << "Check https://status.unbrowser.ai for service status" >> ] ],
       [ code |-> "SSE_ERROR",
         recovery |-> [ canRetry |-> TRUE,
                        retryAfter |-> 5000,
                        suggestion |-> "Server-sent events connection failed. Retry the request.",
                        alternatives |-> << "Use browse() instead of browseWithProgress()" >> ] ],
       [ code |-> "HEALTH_CHECK_FAILED",
         recovery |-> [ canRetry |-> TRUE,
                        retryAfter |-> 30000,
                        suggestion |-> "Health check failed. The API may be experiencing issues.",
                        alternatives |-> << "Check https://status.unbrowser.ai for service status" >> ] ]
    >>

\* // Verification errors
VerificationRecovery ==
    <<
       [ code |-> "VERIFICATION_FAILED",
         recovery |-> [ canRetry |-> TRUE,
                        suggestion |-> "Content verification failed. The extracted content may be incomplete.",
                        alternatives |-> << "Try with verify.mode: \"thorough\"", "Use waitForSelector option" >> ] ],
       [ code |-> "CONTENT_MISMATCH",
         recovery |-> [ canRetry |-> TRUE,
                        suggestion |-> "Extracted content does not match expected format.",
                        alternatives |-> << "Review the page structure", "Update selectors" >> ] ]
    >>

\* // Generic
GenericRecovery ==
    <<
       [ code |-> "UNKNOWN_ERROR",
         recovery |-> [ canRetry |-> TRUE,
                        retryAfter |-> 5000,
                        suggestion |-> "An unexpected error occurred. Please retry.",
                        alternatives |-> << "Check the error message for details", "Contact support if persistent" >> ] ]
    >>

\* the table with the entry under // Generic left out
C20_RecoveryWithoutGeneric ==
    AuthenticationRecovery \o RequestRecovery \o RateLimitingRecovery \o ContentRecovery
      \o NetworkRecovery \o ServerRecovery \o VerificationRecovery

\* ERROR_RECOVERY: the entries of the object literal
ERROR_RECOVERY ==
    AuthenticationRecovery \o RequestRecovery \o RateLimitingRecovery \o ContentRecovery
      \o NetworkRecovery \o ServerRecovery \o VerificationRecovery \o GenericRecovery

\* the places of the table whose key is code
EntriesFor(code) == { i \in DOMAIN ERROR_RECOVERY : ERROR_RECOVERY[i].code = code }

\* ERROR_RECOVERY[code] as it is spread: the value of the key (the last one
\* written, were a key written twice), or nothing when there is no such key
RecoveryFor(code) ==
    IF EntriesFor(code) = {}
      THEN << >>
      ELSE ERROR_RECOVERY[CHOOSE i \in EntriesFor(code) : \A j \in EntriesFor(code) : j <= i].recovery

\* Mutant: a custom recovery stands in place of the table's entry.
C22_SpreadReplacesWhole(a, b) == IF DOMAIN b = {} THEN a ELSE b

\* { ...a, ...b }
Spread(a, b) == [f \in DOMAIN a \cup DOMAIN b |-> IF f \in DOMAIN b THEN b[f] ELSE a[f]]

\* options?.customRecovery: undefined, or an object with some of the fields
CustomRecoveries ==
    { Spread(Spread(a, b), c) :
        a \in {<< >>, [canRetry |-> TRUE], [canRetry |-> FALSE]},
        b \in {<< >>, [retryAfter |-> 0], [retryAfter |-> 1500]},
        c \in {<< >>, [suggestion |-> "custom"]} }

\* new UnbrowserError(code, message, { customRecovery })
Construct(code, customRecovery) ==
    [code |-> code, recovery |-> Spread(RecoveryFor(code), customRecovery)]

\* UnbrowserError.fromResponse(response, body), bodyCode being body?.error?.code
fromResponse(bodyCode) ==
    Construct(IF bodyCode \in {Absent, ""} THEN "UNKNOWN_ERROR" ELSE bodyCode, << >>)

\* rateLimitError(retryAfter)
rateLimitError(retryAfter) == Construct("RATE_LIMITED", [retryAfter |-> retryAfter])

\* timeoutError(timeoutMs, url)
timeoutError == Construct("TIMEOUT", << >>)

\* isRetryable(): this.recovery.canRetry
isRetryable(e) == IF "canRetry" \in DOMAIN e.recovery THEN e.recovery.canRetry ELSE Absent

\* getRetryDelay(): this.recovery.retryAfter || 0
getRetryDelay(e) ==
    IF "retryAfter" \in DOMAIN e.recovery /\ e.recovery.retryAfter # 0
      THEN e.recovery.retryAfter
      ELSE 0

\* No request and no stream: only error objects are constructed.
InitErrors ==
    /\ impl \in Impls
    /\ apiKey = KeyOf(<< "ub_", "live_", "k" >>)
    /\ constructError = "none"
    /\ retry = TRUE
    /\ maxRetries = DefaultMaxRetries
    /\ hasSignal = FALSE
    /\ signalAborted = FALSE
    /\ pc = "idle"
    /\ attempt = 0
    /\ calls = 0
    /\ timerArmed = FALSE
    /\ ctrlAborted = FALSE
    /\ staleTimers = 0
    /\ result = NoEnvelope
    /\ lastError = NoError
    /\ sleepMs = 0
    /\ delays = << >>
    /\ outcome = Pending
    /\ onlyRateLimited = TRUE
    /\ inFlight = 0
    /\ SseIdle
    /\ errorObject = NoErrorObject
    /\ errorArgs = NoErrorArgs
    /\ ops = NoOps

CallConstructor(code, customRecovery) ==
    /\ errorObject' = Construct(code, customRecovery)
    /\ errorArgs' = [op |-> "new", code |-> code, customRecovery |-> customRecovery]
    /\ UNCHANGED << impl, requestVars, sseVars, ops >>

CallFromResponse(bodyCode) ==
    /\ errorObject' = fromResponse(bodyCode)
    /\ errorArgs' = [op |-> "fromResponse", code |-> bodyCode, customRecovery |-> << >>]
    /\ UNCHANGED << impl, requestVars, sseVars, ops >>

CallRateLimitError(retryAfter) ==
    /\ errorObject' = rateLimitError(retryAfter)
    /\ errorArgs' = [op |-> "rateLimitError", code |-> "RATE_LIMITED",
                     customRecovery |-> [retryAfter |-> retryAfter]]
    /\ UNCHANGED << impl, requestVars, sseVars, ops >>

CallTimeoutError ==
    /\ errorObject' = timeoutError
    /\ errorArgs' = [op |-> "timeoutError", code |-> "TIMEOUT", customRecovery |-> << >>]
    /\ UNCHANGED << impl, requestVars, sseVars, ops >>

NextErrors ==
    \/ \E code \in ErrorCode, customRecovery \in CustomRecoveries :
         CallConstructor(code, customRecovery)
    \/ \E bodyCode \in WireCodes \cup {Absent, ""} : CallFromResponse(bodyCode)
    \/ \E retryAfter \in {0, 1500, 120000} : CallRateLimitError(retryAfter)
    \/ CallTimeoutError

SpecErrors == InitErrors /\ [][NextErrors]_vars

(***************************************************************************)
(* Claims about the recovery table                                         *)
(***************************************************************************)

\* the fields an ErrorRecovery must have are there and of the right kind
DefinesAdvice(recovery) ==
    /\ {"canRetry", "suggestion"} \subseteq DOMAIN recovery
    /\ recovery.canRetry \in BOOLEAN
    /\ recovery.suggestion # ""

\* C20: the recovery table is total over the error codes: every code has
\* exactly one entry, the entry defines canRetry and a suggestion, the table
\* has no entry for anything else, and so every error object constructed for
\* a code of the enumeration carries defined advice.
C20_RecoveryTableIsTotal ==
    /\ \A code \in ErrorCode :
         /\ Cardinality(EntriesFor(code)) = 1
         /\ DefinesAdvice(RecoveryFor(code))
    /\ \A i \in DOMAIN ERROR_RECOVERY : ERROR_RECOVERY[i].code \in ErrorCode
    /\ errorObject.code \in ErrorCode => DefinesAdvice(errorObject.recovery)

\* an error object of the last code of the table, constructed with the
\* table's own advice
C20_Witness ==
    /\ errorObject.code = "UNKNOWN_ERROR"
    /\ errorObject.recovery = RecoveryFor("UNKNOWN_ERROR")
    /\ errorObject.recovery.canRetry = TRUE
    /\ errorObject.recovery.retryAfter = 5000

(***************************************************************************)
(* Further claims about the request executor                               *)
(***************************************************************************)

\* C21: an error built from a wire code is of a code of the enumeration (an
\* unknown code having become UNKNOWN_ERROR), so that the error object
\* constructed for it carries advice with canRetry and a suggestion.
C21_UnknownWireCodeIsUnknownError ==
    lastError.name = "UnbrowserError"
      => /\ lastError.code \in ErrorCode
         /\ DefinesAdvice(Construct(lastError.code, << >>).recovery)

\* C23: after an attempt failed with an error whose advice says canRetry =
\* false, the operation has ended: nothing is waited and no call follows.
C23_RetryDecisionIsTheAdvice ==
    (/\ lastError.name = "UnbrowserError"
     /\ lastError.code \in ErrorCode
     /\ ~RecoveryFor(lastError.code).canRetry)
      => /\ pc = "done"
         /\ Len(delays) = calls - 1

\* C26: once the internal timeout of the attempt has fired with the call
\* still in flight, the call is cancelled: the signal fetch() was given has
\* aborted, whether or not the caller supplied a signal of its own.
C26_TimeoutCancelsTheCall ==
    (pc = "fetch" /\ ctrlAborted) => SignalAborted

\* C27: an operation that has ended made at least one physical call,
\* whatever retry and maxRetries were configured.
C27_AtLeastOneCall ==
    pc = "done" => calls >= 1

\* C29: when the internal timeout has ended attempt k, the caller having
\* given no signal, and k < attempts, the step that ends the attempt starts
\* the backoff before attempt k + 1.
C29_TimedOutAttemptIsRetried ==
    [][ (pc = "fetch" /\ ~hasSignal /\ ctrlAborted /\ attempt < Attempts /\ pc' # pc)
          => /\ pc' = "sleep"
             /\ sleepMs' = BackoffDelay(attempt)
      ]_vars

\* C30: an operation that returned did so on its first successful attempt,
\* k + 1, after k attempts that failed retryably: it returns that attempt's
\* data after exactly k + 1 calls and the k backoff delays of attempts 1..k.
C30_RecoversAfterTransientFailures ==
    outcome.kind = "returned"
      => /\ result.success
         /\ outcome.data = result.data
         /\ calls = Len(delays) + 1
         /\ attempt = calls
         /\ calls <= Attempts
         /\ \A k \in 1 .. Len(delays) : delays[k] = BackoffDelay(k)
         /\ calls > 1
              => /\ ~IsAbort(lastError)
                 /\ ~(lastError.name = "UnbrowserError" /\ lastError.code \in NonRetryable)

\* two failures, the second a network error, then success with data d1
C30_Witness ==
    /\ outcome = Returned("d1")
    /\ calls = 3
    /\ Len(delays) = 2
    /\ lastError = TypeError

(***************************************************************************)
(* Further claims about error objects                                      *)
(***************************************************************************)

\* C22: the recovery of a constructed error has the fields of the table's
\* entry for its code and the fields of the custom recovery given; a field
\* the custom recovery does not give has the table's value, a field it gives
\* has the given value.  So rateLimitError(ms), which gives only retryAfter,
\* leaves canRetry, suggestion and alternatives as the table has them.
C22_OverrideReplacesOnlyGivenFields ==
    errorArgs.op # "none"
      => LET entry == RecoveryFor(errorObject.code)
             given == errorArgs.customRecovery
         IN  /\ DOMAIN errorObject.recovery = DOMAIN entry \cup DOMAIN given
             /\ \A f \in DOMAIN entry \ DOMAIN given : errorObject.recovery[f] = entry[f]
             /\ \A f \in DOMAIN given : errorObject.recovery[f] = given[f]
             /\ errorArgs.op = "rateLimitError"
                  => /\ errorObject.code = "RATE_LIMITED"
                     /\ DOMAIN given = {"retryAfter"}
                     /\ \A f \in {"canRetry", "suggestion", "alternatives"} :
                          errorObject.recovery[f] = entry[f]

\* rateLimitError(1500): the delay is the one given, the rest the table's
C22_Witness ==
    /\ errorArgs.op = "rateLimitError"
    /\ errorObject.recovery.retryAfter = 1500
    /\ RecoveryFor("RATE_LIMITED").retryAfter = 60000
    /\ errorObject.recovery.canRetry = TRUE
    /\ errorObject.recovery.suggestion = RecoveryFor("RATE_LIMITED").suggestion
    /\ errorObject.recovery.alternatives = RecoveryFor("RATE_LIMITED").alternatives

(***************************************************************************)
(* The constructor of UnbrowserClient, and after it one request().  An API *)
(* key is held as the pieces the constructor's tests and the documented    *)
(* pattern tell apart: "ub_", "live_" or "test_", and the rest.            *)
(***************************************************************************)

\* config.apiKey: absent, empty, of the two documented forms, with the
\* prefix ub_ alone, and with another prefix
ApiKeys ==
    { NoKey, KeyOf(<< >>), KeyOf(<< "ub_", "live_", "k" >>), KeyOf(<< "ub_", "test_", "k" >>),
      KeyOf(<< "ub_", "k" >>), KeyOf(<< "sk_", "live_", "k" >>) }

\* config.retry: true, false, or absent
ConfigRetry == {"true", "false", Absent}

\* !config.apiKey
KeyIsFalsy(key) == ~key.defined \/ key.text = << >>

\* config.apiKey.startsWith('ub_')
KeyStartsWithUb(key) == Len(key.text) >= 1 /\ key.text[1] = "ub_"

\* the code of the error the constructor throws for this key, or "none"
ConstructorThrows(key) ==
    IF KeyIsFalsy(key)
      THEN "MISSING_API_KEY"
      ELSE IF ~KeyStartsWithUb(key) THEN "INVALID_API_KEY" ELSE "none"

\* No client yet.
InitClient ==
    /\ impl \in Impls
    /\ apiKey = NoKey
    /\ constructError = "none"
    /\ retry = TRUE
    /\ maxRetries = DefaultMaxRetries
    /\ hasSignal \in BOOLEAN
    /\ signalAborted = FALSE
    /\ pc = "new"
    /\ attempt = 0
    /\ calls = 0
    /\ timerArmed = FALSE
    /\ ctrlAborted = FALSE
    /\ staleTimers = 0
    /\ result = NoEnvelope
    /\ lastError = NoError
    /\ sleepMs = 0
    /\ delays = << >>
    /\ outcome = Pending
    /\ onlyRateLimited = TRUE
    /\ inFlight = 0
    /\ SseIdle
    /\ errorObject = NoErrorObject
    /\ errorArgs = NoErrorArgs
    /\ ops = NoOps

\* new UnbrowserClient({ apiKey: key, retry: r, maxRetries: c })
ConstructClient(key, r, c) ==
    /\ pc = "new"
    /\ IF ConstructorThrows(key) # "none"
         THEN /\ pc' = "failed"
              /\ constructError' = ConstructorThrows(key)
              /\ UNCHANGED << apiKey, retry, maxRetries >>
         ELSE /\ pc' = "idle"
              /\ apiKey' = key
              /\ retry' = (r # "false")
              /\ maxRetries' = ConstructMaxRetries(c)
              /\ UNCHANGED constructError
    /\ UNCHANGED << impl, hasSignal, signalAborted, attempt, calls, timerArmed, ctrlAborted,
                    staleTimers, result, lastError, sleepMs, delays, outcome,
                    onlyRateLimited, inFlight, sseVars, errorVars, ops >>

NextClient ==
    \/ \E key \in ApiKeys, r \in ConfigRetry, c \in (-1) .. MaxRetries :
         ConstructClient(key, r, c)
    \/ Next

SpecClient == InitClient /\ [][NextClient]_vars

\* the documented pattern: ub_live_* or ub_test_*
MatchesKeyPattern(key) ==
    /\ key.defined
    /\ Len(key.text) >= 2
    /\ key.text[1] = "ub_"
    /\ key.text[2] \in {"live_", "test_"}

\* C24: a client exists only with an API key of the form ub_live_* or
\* ub_test_* (for any other key the constructor threw MISSING_API_KEY or
\* INVALID_API_KEY), so every call, whose Authorization header is
\* "Bearer " and this.apiKey, carries such a key.
C24_EveryCallCarriesPatternKey ==
    /\ pc \notin {"new", "failed"} => MatchesKeyPattern(apiKey)
    /\ calls > 0 => MatchesKeyPattern(apiKey)
    /\ pc = "failed" => constructError \in {"MISSING_API_KEY", "INVALID_API_KEY"}

(***************************************************************************)
(* browseWithProgress on a body whose lines end with "\r\n".  The read     *)
(* loop is the one of SpecSSE; lf follows, pass by pass, what the loop     *)
(* does with the same chunks once their "\r" are taken out.                *)
(***************************************************************************)

\* the text of lines, each ended by "\r\n"
RECURSIVE CrlfText(_)
CrlfText(ls) ==
    IF ls = << >> THEN << >> ELSE Head(ls) \o << "\r", "\n" >> \o CrlfText(Tail(ls))

\* The CRLF-terminated bodies a server may send: 1 to MaxCrlfLines lines.
CrlfStreams ==
    { CrlfText(ls) : ls \in UNION { [1 .. k -> LineKinds] : k \in 1 .. MaxCrlfLines } }

\* A client and a CRLF-terminated response body for browseWithProgress().
InitCRLF ==
    /\ impl \in Impls
    /\ apiKey = KeyOf(<< "ub_", "live_", "k" >>)
    /\ constructError = "none"
    /\ retry = TRUE
    /\ maxRetries = DefaultMaxRetries
    /\ hasSignal = FALSE
    /\ signalAborted = FALSE
    /\ pc = "idle"
    /\ attempt = 0
    /\ calls = 0
    /\ timerArmed = FALSE
    /\ ctrlAborted = FALSE
    /\ staleTimers = 0
    /\ result = NoEnvelope
    /\ lastError = NoError
    /\ sleepMs = 0
    /\ delays = << >>
    /\ outcome = Pending
    /\ onlyRateLimited = TRUE
    /\ inFlight = 0
    /\ stream \in CrlfStreams
    /\ rest = stream
    /\ ssePc = "idle"
    /\ sseEnd = "none"
    /\ sseSplit = FALSE
    /\ buffer = << >>
    /\ sink = << >>
    /\ sseResult = "null"
    /\ sseError = NoError
    /\ sseOutcome = Pending
    /\ lf = LfIdle
    /\ response = NoResponse
    /\ errorObject = NoErrorObject
    /\ errorArgs = NoErrorArgs
    /\ ops = NoOps

SpecCRLF == InitCRLF /\ [][NextSSE]_vars

\* C28: a CRLF-terminated stream decodes as the same stream LF-terminated:
\* after every pass of the read loop, and at its end, the progress payloads
\* delivered, the result and the error recorded and the outcome are those
\* of the loop run on the same chunks without their "\r".
C28_CrlfDecodesAsLf ==
    HasCR(stream)
      => /\ sink = lf.sink
         /\ sseResult = lf.result
         /\ sseError = lf.error
         /\ sseOutcome = lf.outcome
         /\ WithoutCR(buffer) = lf.buffer

\* a CRLF-terminated result record, read in several chunks, returned
C28_Witness ==
    /\ stream = CrlfText(<< << "event: ", "result" >>, << "data: ", "{data:r1}" >>, << >> >>)
    /\ sseSplit
    /\ sseEnd = "closed"
    /\ sseOutcome = Returned("r1")
    /\ lf.outcome = Returned("r1")

(***************************************************************************)
(* Two calls of request() running at once on one @unbrowser/core client,   *)
(* with no caller signal.  ops[i] holds the locals of call i: the loop     *)
(* variable, lastError, the attempt's controller and timer; the client's   *)
(* fields retry and maxRetries are read by both.  got is history: what the *)
(* transport answered to each concluded attempt of the call.               *)
(***************************************************************************)

OpIds == {1, 2}

\* the locals of a call of request() that has not started
OpIdle ==
    [ pc |-> "idle", attempt |-> 0, calls |-> 0, timerArmed |-> FALSE,
      ctrlAborted |-> FALSE, lastError |-> NoError, sleepMs |-> 0, delays |-> << >>,
      outcome |-> Pending, got |-> << >> ]

\* what the transport does to an attempt: the timer fires first, fetch()
\* rejects, or the body parses to an envelope
TimedOut == [kind |-> "timeout", env |-> NoEnvelope]
NetworkFailed == [kind |-> "network", env |-> NoEnvelope]
Answered(env) == [kind |-> "envelope", env |-> env]

\* the envelopes of the two operations: data, a retryable and a
\* non-retryable error
OpEnvelopes ==
    { [success |-> TRUE, data |-> "d1", error |-> Absent],
      [success |-> FALSE, data |-> Absent, error |-> "RATE_LIMITED"],
      [success |-> FALSE, data |-> Absent, error |-> "UNAUTHORIZED"] }

\* Mutant: the loop variable is the first call's.
C25_AttemptOfFirstCall(i) == ops[1].attempt

\* let attempt: the loop variable of call i
AttemptOf(i) == ops[i].attempt

\* the loop body up to the await of fetch(), in call i
OpStartAttempt(i, a) ==
    [ops[i] EXCEPT !.attempt = a, !.calls = @ + 1, !.timerArmed = TRUE,
                   !.ctrlAborted = FALSE, !.pc = "fetch"]

\* the loop test of call i entered with attempt = a
OpLoopHead(i, a) ==
    IF a <= Attempts
      THEN OpStartAttempt(i, a)
      ELSE [ops[i] EXCEPT !.attempt = a, !.pc = "done",
                          !.outcome = Thrown(ExhaustedError(ops[i].lastError))]

\* the catch block of call i, its attempt having got r from the transport
OpCatch(i, error, r) ==
    LET o == [ops[i] EXCEPT !.lastError = error, !.timerArmed = FALSE,
                            !.got = Append(@, r)]
    IN  IF error.name = "UnbrowserError" /\ error.code \in NonRetryable
          THEN [o EXCEPT !.pc = "done", !.outcome = Thrown(error)]
          ELSE IF IsAbort(error)
            THEN [o EXCEPT !.pc = "done",
                           !.outcome = Thrown(UnbrowserError("REQUEST_ABORTED"))]
            ELSE IF AttemptOf(i) < Attempts
              THEN [o EXCEPT !.pc = "sleep", !.sleepMs = BackoffDelay(AttemptOf(i))]
              ELSE [o EXCEPT !.pc = "done", !.attempt = AttemptOf(i) + 1,
                             !.outcome = Thrown(ExhaustedError(error))]

\* One client, two calls of request() not yet made.
InitConcurrent ==
    /\ impl = "client"
    /\ apiKey = KeyOf(<< "ub_", "live_", "k" >>)
    /\ constructError = "none"
    /\ retry \in BOOLEAN
    /\ maxRetries \in 1 .. MaxConcurrentRetries
    /\ hasSignal = FALSE
    /\ signalAborted = FALSE
    /\ pc = "idle"
    /\ attempt = 0
    /\ calls = 0
    /\ timerArmed = FALSE
    /\ ctrlAborted = FALSE
    /\ staleTimers = 0
    /\ result = NoEnvelope
    /\ lastError = NoError
    /\ sleepMs = 0
    /\ delays = << >>
    /\ outcome = Pending
    /\ onlyRateLimited = TRUE
    /\ inFlight = 0
    /\ SseIdle
    /\ errorObject = NoErrorObject
    /\ errorArgs = NoErrorArgs
    /\ ops = [i \in OpIds |-> OpIdle]

\* call i of request() is made
OpRequest(i) ==
    /\ ops[i].pc = "idle"
    /\ ops' = [ops EXCEPT ![i] = OpLoopHead(i, 1)]
    /\ UNCHANGED << impl, requestVars, sseVars, errorVars >>

\* the timer of call i's attempt fires: its controller aborts
OpTimeoutFires(i) ==
    /\ ops[i].pc = "fetch"
    /\ ops[i].timerArmed
    /\ ops' = [ops EXCEPT ![i].timerArmed = FALSE, ![i].ctrlAborted = TRUE]
    /\ UNCHANGED << impl, requestVars, sseVars, errorVars >>

\* fetch() of call i rejects because its controller aborted
OpAwaitAborted(i) ==
    /\ ops[i].pc = "fetch"
    /\ ops[i].ctrlAborted
    /\ ops' = [ops EXCEPT ![i] = OpCatch(i, AbortError, TimedOut)]
    /\ UNCHANGED << impl, requestVars, sseVars, errorVars >>

\* fetch() of call i resolves: clearTimeout(timeoutId)
OpFetchResolves(i) ==
    /\ ops[i].pc = "fetch"
    /\ ~ops[i].ctrlAborted
    /\ ops' = [ops EXCEPT ![i].timerArmed = FALSE, ![i].pc = "json"]
    /\ UNCHANGED << impl, requestVars, sseVars, errorVars >>

\* fetch() of call i rejects: the network failed
OpFetchRejects(i) ==
    /\ ops[i].pc = "fetch"
    /\ ~ops[i].ctrlAborted
    /\ ops' = [ops EXCEPT ![i] = OpCatch(i, TypeError, NetworkFailed)]
    /\ UNCHANGED << impl, requestVars, sseVars, errorVars >>

\* response.json() of call i resolves with the envelope env
OpJsonParsed(i, env) ==
    /\ ops[i].pc = "json"
    /\ ops' = [ops EXCEPT ![i] =
                 IF Failed(env)
                   THEN OpCatch(i, UnbrowserError(EnvelopeCode(env)), Answered(env))
                   ELSE [ops[i] EXCEPT !.pc = "done", !.outcome = Returned(Unwrap(env)),
                                       !.got = Append(@, Answered(env))]]
    /\ UNCHANGED << impl, requestVars, sseVars, errorVars >>

\* the backoff of call i is over; attempt++ and the loop test follow
OpSleepDone(i) ==
    /\ ops[i].pc = "sleep"
    /\ ops' = [ops EXCEPT ![i] =
                 [OpLoopHead(i, AttemptOf(i) + 1) EXCEPT !.delays = Append(@, ops[i].sleepMs)]]
    /\ UNCHANGED << impl, requestVars, sseVars, errorVars >>

NextConcurrent ==
    \E i \in OpIds :
        \/ OpRequest(i)
        \/ OpTimeoutFires(i)
        \/ OpAwaitAborted(i)
        \/ OpFetchResolves(i)
        \/ OpFetchRejects(i)
        \/ \E env \in OpEnvelopes : OpJsonParsed(i, env)
        \/ OpSleepDone(i)

SpecConcurrent == InitConcurrent /\ [][NextConcurrent]_vars

(***************************************************************************)
(* Claims about two concurrent operations                                  *)
(***************************************************************************)

\* the error an attempt ends with when the transport answers r
ErrorOf(r) ==
    IF r.kind = "timeout" THEN AbortError
    ELSE IF r.kind = "network" THEN TypeError
    ELSE UnbrowserError(EnvelopeCode(r.env))

RECURSIVE Alone(_, _, _)
\* the calls, delays and outcome of one request() running by itself from
\* attempt a on, the transport answering its attempts with got in turn
Alone(got, a, ds) ==
    IF got = << >>
      THEN [calls |-> a - 1, delays |-> ds, outcome |-> Pending]
      ELSE LET r == Head(got)
               e == ErrorOf(r)
           IN  IF r.kind = "envelope" /\ ~Failed(r.env)
                 THEN [calls |-> a, delays |-> ds, outcome |-> Returned(Unwrap(r.env))]
                 ELSE IF e.name = "UnbrowserError" /\ e.code \in NonRetryable
                   THEN [calls |-> a, delays |-> ds, outcome |-> Thrown(e)]
                   ELSE IF IsAbort(e)
                     THEN [calls |-> a, delays |-> ds,
                           outcome |-> Thrown(UnbrowserError("REQUEST_ABORTED"))]
                     ELSE IF a < Attempts
                       THEN Alone(Tail(got), a + 1, Append(ds, BackoffDelay(a)))
                       ELSE [calls |-> a, delays |-> ds,
                             outcome |-> Thrown(ExhaustedError(e))]

\* C25: whatever the other call of request() on the client has done so far,
\* a call that is over made the physical calls, slept the delays and ended
\* with the outcome of a call running by itself that got the same answers
\* from the transport.
C25_ConcurrentOperationsAreIndependent ==
    \A i \in OpIds :
        ops[i].pc = "done" =>
            [calls |-> ops[i].calls, delays |-> ops[i].delays,
             outcome |-> ops[i].outcome] = Alone(ops[i].got, 1, << >>)

\* on a client with retry on and maxRetries 3 the first call returned data
\* at its second attempt and the second call was rate limited three times
C25_Witness ==
    /\ retry
    /\ maxRetries = 3
    /\ ops[1].outcome = Returned("d1")
    /\ ops[1].calls = 2
    /\ ops[1].delays = << BackoffDelay(1) >>
    /\ ops[2].pc = "done"
    /\ ops[2].calls = 3
    /\ ops[2].outcome = Thrown(UnbrowserError("RATE_LIMITED"))

(***************************************************************************)
(* Claims about the end of the retry loop                                  *)
(***************************************************************************)

\* C31: the step that ends a failed attempt makes that attempt's error the
\* lastError, whatever lastError held, and when the step is the one that
\* exhausts the attempts that error is what the operation throws.
C31_ExhaustionRaisesTheLastError ==
    [][ (inFlight' < inFlight /\ outcome'.kind # "returned")
          => /\ IF pc = "json" /\ result' # NoEnvelope
                  THEN lastError' = UnbrowserError(EnvelopeCode(result'))
                  ELSE lastError' \in {AbortError, TypeError, SyntaxError}
             /\ (pc' = "done" /\ attempt' > Attempts) => outcome' = Thrown(lastError')
      ]_vars

\* three attempts, not all of them rate limited, the last one rate limited
C31_Witness ==
    /\ pc = "done"
    /\ calls = 3
    /\ attempt = Attempts + 1
    /\ ~onlyRateLimited
    /\ result.error = "RATE_LIMITED"
    /\ outcome = Thrown(UnbrowserError("RATE_LIMITED"))

\* C32: a backoff is waited only after an attempt that is not the last one
\* allowed; an operation of n attempts has waited at most n - 1 delays (none
\* when n is 1 or less), one fewer than the calls it made.
C32_NoDelayAfterFinalAttempt ==
    /\ pc = "sleep" => attempt < Attempts
    /\ Len(delays) <= (IF Attempts >= 1 THEN Attempts - 1 ELSE 0)
    /\ calls >= 1 => Len(delays) = calls - 1

\* the fourth of four attempts failed on the network and the operation threw
C32_Witness ==
    /\ pc = "done"
    /\ Attempts = 4
    /\ calls = 4
    /\ Len(delays) = 3
    /\ outcome = Thrown(TypeError)

\* a pending call concludes: fetch() or response.json() settles
CallConcludes ==
    \/ AwaitAborted
    \/ FetchResolves
    \/ FetchRejects
    \/ \E env \in Envelopes : JsonParsed(env)
    \/ JsonRejects

\* request() is called, every call it makes concludes and every backoff
\* timer fires.
SpecLive ==
    /\ Init
    /\ [][Next]_vars
    /\ WF_vars(Request)
    /\ WF_vars(CallConcludes)
    /\ WF_vars(SleepDone)

\* C33: an operation whose calls all conclude ends, returning or throwing,
\* and never makes more calls than its attempts.
C33_EveryOperationTerminates ==
    /\ [](calls <= (IF Attempts >= 1 THEN Attempts ELSE 0))
    /\ <>(pc = "done" /\ outcome.kind \in {"returned", "thrown"})

\* an operation that ended after using all of its five attempts
C33_Witness ==
    /\ pc = "done"
    /\ Attempts = 5
    /\ calls = 5
    /\ outcome.kind = "thrown"

\* C35: the firing of a timer left pending by a concluded attempt changes
\* nothing of the attempt in progress, and the controller of the attempt in
\* progress aborts only when that attempt's own timer fires during its call.
C35_TimeoutConfinedToItsAttempt ==
    [][ /\ staleTimers' < staleTimers
          => UNCHANGED << pc, attempt, calls, timerArmed, ctrlAborted, result,
                          lastError, sleepMs, delays, outcome, inFlight >>
        /\ (ctrlAborted' /\ ~ctrlAborted)
          => (pc = "fetch" /\ timerArmed /\ ~timerArmed' /\ staleTimers' = staleTimers)
      ]_vars

\* the first attempt failed on the network with its timer pending, the timer
\* has fired since, and the second attempt returned data
C35_Witness ==
    /\ ~hasSignal
    /\ lastError = TypeError
    /\ calls = 2
    /\ staleTimers = 0
    /\ outcome = Returned("d1")

(***************************************************************************)
(* Claims about the retry advice of an error object                        *)
(***************************************************************************)

\* C36: for every error object constructed, isRetryable() is the canRetry of
\* its recovery, and getRetryDelay() is 0 when the error is not retryable,
\* otherwise the retryAfter of its recovery, or 0 when it has none.
C36_RetryDelayFollowsRetryability ==
    (errorArgs.op # "none" /\ "canRetry" \in DOMAIN errorObject.recovery)
      => /\ isRetryable(errorObject) = errorObject.recovery.canRetry
         /\ ~isRetryable(errorObject) => getRetryDelay(errorObject) = 0
         /\ isRetryable(errorObject)
              => getRetryDelay(errorObject) =
                   (IF "retryAfter" \in DOMAIN errorObject.recovery
                      THEN errorObject.recovery.retryAfter ELSE 0)

(***************************************************************************)
(* Further claims about the event-stream decoder                           *)
(***************************************************************************)

\* the places of the records of one event type
RecordsOf(lines, type) ==
    { i \in 1 .. Len(lines) : IsRecord(lines, i) /\ AfterPrefix(lines[i]) = type }

\* the last of a non-empty set of places
Last(S) == CHOOSE i \in S : \A j \in S : j <= i

\* the parsed payload of the record at place i
PayloadOf(lines, i) == JsonParse(AfterPrefix(lines[i + 1]))

\* every event line of the body is followed by its data line
EveryEventHasData(text) ==
    \A i \in 1 .. Len(Lines(text)) :
        StartsWith(Lines(text)[i], "event: ") => IsRecord(Lines(text), i)

\* C37: a body of well-formed records, each event line followed by its data
\* line, read as one batch to its close was read whole, every progress
\* record of it was delivered, those after a result or error record too, and
\* the result and the error recorded are those of the last result record and
\* of the last error record.
C37_LastTerminalRecordIsReported ==
    (ssePc = "done" /\ sseEnd = "closed" /\ ~sseSplit /\ ~HasMalformedRecord(stream)
       /\ EveryEventHasData(stream))
      => LET lines == Lines(stream)
             results == RecordsOf(lines, "result")
             errors == RecordsOf(lines, "error")
         IN  /\ rest = << >>
             /\ Len(sink) = Cardinality(RecordsOf(lines, "progress"))
             /\ results # {} => sseResult = PayloadOf(lines, Last(results)).data
             /\ errors # {}
                  => sseError = UnbrowserError(SseErrorCode(PayloadOf(lines, Last(errors))))

(***************************************************************************)
(* browseWithProgress() from its call on: the response may lack            *)
(* response.ok, and then its text is parsed for an error; a body may end   *)
(* in a line without its line terminator, and a payload may hold null data *)
(* or no field at all.                                                     *)
(***************************************************************************)

\* The lines of such bodies.
EdgeLineKinds ==
    { << "event: ", t >> : t \in EventTypes }
      \cup { << "data: ", p >> : p \in {"{data:r1}", "{data:null}", "{}"} }
      \cup { << >> }

\* what a body may end in: nothing after its last line terminator, or a
\* data line without its line terminator
Tails == { << >> } \cup { l \in EdgeLineKinds : StartsWith(l, "data: ") }

\* Up to MaxEdgeLines complete lines, then the tail.
EdgeStreams ==
    { Text(ls) \o tail :
        ls \in UNION { [1 .. k -> EdgeLineKinds] : k \in 0 .. MaxEdgeLines },
        tail \in Tails }

\* the texts response.text() gives for a response that is not OK
ErrorTexts == {"{error:{code:RATE_LIMITED}}", "{}", "{oops"}

\* what the try block throws: JSON.parse's SyntaxError, or the error built
\* from the body (fromResponse in client.ts, error.error?.code ||
\* 'HTTP_ERROR' in http-client.ts)
TryThrows(text) ==
    IF NotJson(text)
      THEN SyntaxError
      ELSE IF impl = "client"
        THEN UnbrowserError(fromResponse(JsonParse(text).errorCode).code)
        ELSE UnbrowserError(IF JsonParse(text).errorCode = Absent
                              THEN "HTTP_ERROR" ELSE JsonParse(text).errorCode)

\* catch { throw new UnbrowserError('SSE_ERROR', ...) } ('HTTP_ERROR' in
\* http-client.ts): whatever the try block threw is dropped
CatchThrows(thrown) == UnbrowserError(IF impl = "client" THEN "SSE_ERROR" ELSE "HTTP_ERROR")

\* A client and a response for browseWithProgress().
InitBrowse ==
    /\ impl \in Impls
    /\ apiKey = KeyOf(<< "ub_", "live_", "k" >>)
    /\ constructError = "none"
    /\ retry = TRUE
    /\ maxRetries = DefaultMaxRetries
    /\ hasSignal = FALSE
    /\ signalAborted = FALSE
    /\ pc = "idle"
    /\ attempt = 0
    /\ calls = 0
    /\ timerArmed = FALSE
    /\ ctrlAborted = FALSE
    /\ staleTimers = 0
    /\ result = NoEnvelope
    /\ lastError = NoError
    /\ sleepMs = 0
    /\ delays = << >>
    /\ outcome = Pending
    /\ onlyRateLimited = TRUE
    /\ inFlight = 0
    /\ stream \in EdgeStreams
    /\ rest = stream
    /\ ssePc = "idle"
    /\ sseEnd = "none"
    /\ sseSplit = FALSE
    /\ buffer = << >>
    /\ sink = << >>
    /\ sseResult = "null"
    /\ sseError = NoError
    /\ sseOutcome = Pending
    /\ lf = LfIdle
    /\ response = NoResponse
    /\ errorObject = NoErrorObject
    /\ errorArgs = NoErrorArgs
    /\ ops = NoOps

\* browseWithProgress() is called and fetch() resolves with a response
\* that is not OK, of this text: if (!response.ok) { ... }
BrowseNotOk(text) ==
    /\ ssePc = "idle"
    /\ response' = NotOkResponse(text)
    /\ ssePc' = "done"
    /\ sseEnd' = "http"
    /\ sseOutcome' = Thrown(CatchThrows(TryThrows(text)))
    /\ UNCHANGED << impl, requestVars, errorVars, ops, stream, rest, sseSplit, buffer, sink,
                    sseResult, sseError, lf >>

NextBrowse ==
    \/ \E text \in ErrorTexts : BrowseNotOk(text)
    \/ NextSSE

SpecBrowse == InitBrowse /\ [][NextBrowse]_vars

(***************************************************************************)
(* Claims about browseWithProgress() from its call on                      *)
(***************************************************************************)

\* C40: a response that is not OK makes browseWithProgress() throw without
\* a call of the sink; the error's code is the error.code of the body when
\* the body is JSON that carries one, and SSE_ERROR only when the body is
\* not JSON.
C40_NotOkRaisesServerCode ==
    sseEnd = "http"
      => /\ sink = << >>
         /\ sseOutcome.kind = "thrown"
         /\ IF NotJson(response.text)
              THEN sseOutcome.error = UnbrowserError("SSE_ERROR")
              ELSE /\ sseOutcome.error.code # "SSE_ERROR"
                   /\ JsonParse(response.text).errorCode # Absent
                        => sseOutcome.error = UnbrowserError(JsonParse(response.text).errorCode)

\* a batch with every data line that does not come right after an event
\* line made a blank line
Blanked(lines) ==
    [ i \in 1 .. Len(lines) |->
        IF StartsWith(lines[i], "data: ") /\ (i = 1 \/ ~StartsWith(lines[i - 1], "event: "))
          THEN << >>
          ELSE lines[i] ]

\* C34: a pass of the loop does to the sink, the result and the error what
\* it would do were every data line of its batch that does not come right
\* after an event line a blank line: such a data line dispatches nothing.
C34_OrphanDataLineDispatchesNothing ==
    [][ (ssePc = "reading" /\ rest' # rest)
          => \A lines \in {Split(buffer \o SubSeq(rest, 1, Len(rest) - Len(rest')))} :
               \A batch \in {Blanked(SubSeq(lines, 1, Len(lines) - 1))} :
                 \A st \in {ProcessLines(batch, 1,
                                         DecoderState(sink, sseResult, sseError, FALSE))} :
                   /\ sink' = st.sink
                   /\ sseResult' = st.result
                   /\ sseError' = st.error
                   /\ (sseEnd' = "parse") = st.threw
      ]_vars

\* one batch: a data line with no event line before it, then a progress
\* record; the sink was called once
C34_Witness ==
    /\ stream = Text(<< << "data: ", "{data:r1}" >>, << "event: ", "progress" >>,
                        << "data: ", "{}" >> >>)
    /\ ssePc = "done"
    /\ sseEnd = "closed"
    /\ ~sseSplit
    /\ sink = << JsonParse("{}") >>
    /\ sseResult = "null"

\* the lines of a body that end in a line terminator, and what follows the last
TerminatedLines(text) == SubSeq(Split(text), 1, Len(Split(text)) - 1)
UnterminatedLine(text) == Split(text)[Len(Split(text))]

\* no result or error record among the terminated lines
NoTerminatedTerminalRecord(text) ==
    \A i \in 1 .. (Len(TerminatedLines(text)) - 1) :
        ~ /\ StartsWith(TerminatedLines(text)[i], "event: ")
          /\ AfterPrefix(TerminatedLines(text)[i]) \in {"result", "error"}
          /\ StartsWith(TerminatedLines(text)[i + 1], "data: ")

\* C38: when the stream has closed, the text after the last line terminator
\* is still in the buffer and was never interpreted: a body whose terminated
\* lines hold no result or error record has recorded none and resolves to
\* SSE_ERROR, whatever its unterminated last line is.
C38_UnterminatedLineIsNotInterpreted ==
    (ssePc = "done" /\ sseEnd = "closed")
      => /\ buffer = UnterminatedLine(stream)
         /\ NoTerminatedTerminalRecord(stream)
              => /\ sseResult = "null"
                 /\ sseError = NoError
                 /\ sseOutcome = Thrown(UnbrowserError("SSE_ERROR"))

\* a result record whose data line has no line terminator when the stream closes
C38_Witness ==
    /\ stream = << "event: ", "result", "\n", "data: ", "{data:r1}" >>
    /\ ssePc = "done"
    /\ sseEnd = "closed"
    /\ buffer = << "data: ", "{data:r1}" >>
    /\ sseOutcome = Thrown(UnbrowserError("SSE_ERROR"))

\* the body has result records, none with data other than null, and no
\* error record
ResultsWithoutData(text) ==
    /\ RecordsOf(Lines(text), "result") # {}
    /\ \A i \in RecordsOf(Lines(text), "result") :
          PayloadOf(Lines(text), i).data \in {"null", Absent}
    /\ RecordsOf(Lines(text), "error") = {}

\* C39: a stream that has closed with no error recorded and a result that
\* is null or undefined resolves to SSE_ERROR; so does every body whose
\* result records all have null data or no data field and which has no
\* error record, as a body with no result record does.
C39_ResultWithoutDataIsNoResult ==
    (ssePc = "done" /\ sseEnd = "closed")
      => /\ (sseError = NoError /\ sseResult \in {"null", Absent})
              => sseOutcome = Thrown(UnbrowserError("SSE_ERROR"))
         /\ ResultsWithoutData(stream)
              => /\ sseResult \in {"null", Absent}
                 /\ sseOutcome = Thrown(UnbrowserError("SSE_ERROR"))

\* a result record with no data field was decoded
C39_Witness ==
    /\ ssePc = "done"
    /\ sseEnd = "closed"
    /\ ResultsWithoutData(stream)
    /\ sseResult = Absent
    /\ sseOutcome = Thrown(UnbrowserError("SSE_ERROR"))
=============================================================================
